---------------------------- MODULE Spec2Model ----------------------------
(***************************************************************************)
(* Model of the auto-scanning learner                                      *)
(*   src/unrestricted-ai/training_data/training.py  (class AutoScanAI)     *)
(*                                                                         *)
(* Two threads of control: "fg" runs the constructor (initial scan, then   *)
(* start_continuous_scanning) and interactive_mode; "bg" is the daemon     *)
(* thread running _continuous_scan.  The watched directory is part of the  *)
(* state and is changed by the environment at any time, also in the middle *)
(* of a scan: scan_training_data is modelled as one step that tests the    *)
(* root and lists it, one step per listed file, and one step that returns. *)
(***************************************************************************)
EXTENDS Integers, Sequences, FiniteSets, TLC

(***************************************************************************)
(* Bounds of the model.                                                    *)
(***************************************************************************)
MaxFsChanges == 1      \* changes the environment makes to the watched tree
MaxCycles    == 2      \* cycles of the background loop
MaxFiles     == 2      \* files of the tree that the initial scan alone walks

(***************************************************************************)
(* The watched tree: a flat directory with at most these file names.       *)
(* NameBad stands for a file name that is not valid UTF-8 (byte 0xFF);     *)
(* os.walk hands it to the program as a str holding a lone surrogate.      *)
(***************************************************************************)
NameTxt  == "a.txt"
NameBad  == "\\xff.json"
NamePy   == "b.py"
Paths    == {NameTxt, NameBad, NamePy}

\* further names, for the tree that the initial scan alone walks
NameUpJson == "A.JSON"
NameMixPy  == "c.Py"
NameMd     == "d.md"
NameCsv    == "e.csv"
NameDat    == "f.dat"
NameNoExt  == "README"
NameDot    == ".json"
AllNames   == Paths \cup {NameUpJson, NameMixPy, NameMd, NameCsv, NameDat,
                          NameNoExt, NameDot}

\* os.walk yields the directory's entries in the directory's own order; the
\* order is the same for every listing of an unchanged directory.
WalkOrder == <<NameTxt, NameBad, NamePy, NameUpJson, NameMixPy, NameMd,
              NameCsv, NameDat, NameNoExt, NameDot>>

\* str.encode() (UTF-8, strict) succeeds unless the str holds a surrogate.
Encodable(p) == p # NameBad

\* the characters of a file name
Chars(p) ==
    CASE p = NameTxt    -> <<"a", ".", "t", "x", "t">>
      [] p = NameBad    -> <<"\\xff", ".", "j", "s", "o", "n">>
      [] p = NamePy     -> <<"b", ".", "p", "y">>
      [] p = NameUpJson -> <<"A", ".", "J", "S", "O", "N">>
      [] p = NameMixPy  -> <<"c", ".", "P", "y">>
      [] p = NameMd     -> <<"d", ".", "m", "d">>
      [] p = NameCsv    -> <<"e", ".", "c", "s", "v">>
      [] p = NameDat    -> <<"f", ".", "d", "a", "t">>
      [] p = NameNoExt  -> <<"R", "E", "A", "D", "M", "E">>
      [] p = NameDot    -> <<".", "j", "s", "o", "n">>

\* os.path.splitext(file_path)[1]: the name from its last dot on, or nothing
\* when there is no dot or only dots come before the last one
SplitExt(p) ==
    LET s    == Chars(p)
        dots == {i \in DOMAIN s : s[i] = "."}
        d    == CHOOSE i \in dots : \A j \in dots : j <= i
    IN  IF dots # {} /\ (\E i \in 1 .. d - 1 : s[i] # ".")
          THEN SubSeq(s, d, Len(s))
          ELSE << >>

\* (variant: the extension is looked up as it is spelled)
LowerNot(e) == e

\* str.lower()
Lower(e) ==
    LET low(ch) ==
          CASE ch = "A" -> "a" [] ch = "D" -> "d" [] ch = "E" -> "e"
            [] ch = "J" -> "j" [] ch = "M" -> "m" [] ch = "N" -> "n"
            [] ch = "O" -> "o" [] ch = "P" -> "p" [] ch = "R" -> "r"
            [] ch = "S" -> "s" [] OTHER -> ch
    IN  [i \in DOMAIN e |-> low(e[i])]

(***************************************************************************)
(* File contents, as byte strings.                                         *)
(***************************************************************************)
BytesFoo  == "def foo(): pass"
BytesLong == "{\"a\": \"this is long enough\"}"
BytesBin  == "\\xff\\xfe"              \* two bytes that are not valid UTF-8
Contents  == {BytesFoo, BytesLong}

\* further contents, for the tree that the initial scan alone walks
BytesBar   == "class Chart: def bar(self): pass"
BytesShort == "{\"a\": \"short\"}"
BytesOther == "{\"a\": \"another long value\", \"n\": 1234567, \"s\": \"sixsix\"}"
BytesList  == "[{\"a\": \"listed long value\"}, 7, {\"b\": \"tiny\"}, {\"b\": \"second long value\"}]"
AllContents == Contents \cup {BytesBar, BytesShort, BytesOther, BytesList}

NoFile == [exists |-> FALSE]
FileOf(c, r) == [exists |-> TRUE, content |-> c, readable |-> r]

\* an empty directory, and the directories holding one file
EmptyTree == [p \in Paths |-> NoFile]
SmallTrees ==
    {EmptyTree} \cup
    {[EmptyTree EXCEPT ![p] = FileOf(c, r)] :
        p \in Paths, c \in Contents, r \in BOOLEAN}

\* bytes.decode('utf-8') succeeds
Utf8Valid(c) == c # BytesBin

\* re.findall(r'\b[a-zA-Z]{3,}\b', text.lower()) as a set
Words(c) ==
    CASE c = BytesFoo   -> {"def", "foo", "pass"}
      [] c = BytesLong  -> {"this", "long", "enough"}
      [] c = BytesBar   -> {"class", "chart", "def", "bar", "self", "pass"}
      [] c = BytesShort -> {"short"}
      [] c = BytesOther -> {"another", "long", "value", "sixsix"}
      [] c = BytesList  -> {"listed", "long", "value", "tiny", "second"}
      [] OTHER          -> {}

\* the stripped fragments of re.split(r'[.!?]+', text) longer than 10
Fragments(c) ==
    CASE c \in AllContents -> <<c>>
      [] OTHER             -> << >>

\* topics of the fixed taxonomy with a keyword occurring in text.lower()
\* ('art' occurs in 'chart')
DetectedTopics(c) ==
    CASE c = BytesBar -> {"creative"}
      [] OTHER        -> {}

\* json.load: "error" for malformed input, else the parsed top-level value;
\* a mapping is a function from keys to [str |-> is a string, val |-> value]
JsonStr(s) == [str |-> TRUE, val |-> s]
JsonNum(n) == [str |-> FALSE, val |-> n]
JsonLoad(c) ==
    CASE c = BytesLong ->
           [kind |-> "dict",
            items |-> [k \in {"a"} |-> JsonStr("this is long enough")]]
      [] c = BytesShort ->
           [kind |-> "dict", items |-> [k \in {"a"} |-> JsonStr("short")]]
      [] c = BytesOther ->
           [kind |-> "dict",
            items |-> [k \in {"a", "n", "s"} |->
                        CASE k = "a" -> JsonStr("another long value")
                          [] k = "n" -> JsonNum(1234567)
                          [] k = "s" -> JsonStr("sixsix")]]
      [] c = BytesList ->
           [kind |-> "list",
            elems |-> << [isdict |-> TRUE,
                          items |-> [k \in {"a"} |-> JsonStr("listed long value")]],
                        [isdict |-> FALSE],
                        [isdict |-> TRUE,
                         items |-> [k \in {"b"} |-> JsonStr("tiny")]],
                        [isdict |-> TRUE,
                         items |-> [k \in {"b"} |-> JsonStr("second long value")]] >>]
      [] OTHER -> [kind |-> "error"]

\* len() of a string
StrLen(s) == Len(s)

\* re.findall(r'def (\w+)', code) and re.findall(r'class (\w+)', code)
FindDefs(c) ==
    CASE c = BytesFoo -> <<"foo">>
      [] c = BytesBar -> <<"bar">>
      [] OTHER        -> << >>
FindClasses(c) ==
    CASE c = BytesBar -> <<"Chart">>
      [] OTHER        -> << >>

\* hashlib.md5(b).hexdigest(): a digest that is a function of the bytes alone
\* (distinct byte strings of the model have distinct digests)
Md5(b) == <<"md5", b>>

\* file_path.encode(): the bytes of os.path.join(root, file)
PathBytes(p) == "training_data/" \o p

(***************************************************************************)
(* Python dicts are functions; a key is present iff it is in the domain.   *)
(***************************************************************************)
EmptyDict == [x \in {} |-> 0]
Has(d, k) == k \in DOMAIN d
Put(d, k, v) == [x \in (DOMAIN d) \cup {k} |-> IF x = k THEN v ELSE d[x]]

\* open(file_path, ...).read() succeeds on the tree fl
CanRead(fl, p) == fl[p].exists /\ fl[p].readable

(***************************************************************************)
(* hash_file: the digest of the file's bytes; when reading fails, the      *)
(* digest of file_path.encode(), which raises UnicodeEncodeError for a     *)
(* name that is not valid UTF-8 (the bare except does not cover its own    *)
(* handler).                                                               *)
(***************************************************************************)
NoDigest == <<"none", "">>
hash_file(fl, p) ==
    IF CanRead(fl, p)
      THEN [raised |-> FALSE, fp |-> Md5(fl[p].content)]
      ELSE IF Encodable(p)
             THEN [raised |-> FALSE, fp |-> Md5(PathBytes(p))]
             ELSE [raised |-> TRUE,  fp |-> NoDigest]

learn_vocabulary(kb, text) ==
    Put(kb, "vocabulary",
        (IF Has(kb, "vocabulary") THEN kb["vocabulary"] ELSE {}) \cup Words(text))

learn_conversation_patterns(lp, text) ==
    IF Fragments(text) = << >>
      THEN lp
      ELSE Put(lp, "conversation_patterns",
               (IF Has(lp, "conversation_patterns")
                  THEN lp["conversation_patterns"] ELSE << >>) \o Fragments(text))

learn_topics(kb, text) ==
    IF DetectedTopics(text) = {}
      THEN kb
      ELSE Put(kb, "topics",
               (IF Has(kb, "topics") THEN kb["topics"] ELSE {}) \cup DetectedTopics(text))

\* (variant: the test is len(value) >= 5)
learn_from_dict_five(kb, items) ==
    LET q   == {k \in DOMAIN items : items[k].str /\ StrLen(items[k].val) >= 5}
        old == IF Has(kb, "structured_data") THEN kb["structured_data"] ELSE EmptyDict
    IN  IF q = {}
          THEN kb
          ELSE Put(kb, "structured_data",
                   [k \in (DOMAIN old) \cup q |->
                       IF k \in q THEN items[k].val ELSE old[k]])

\* the keys of data_dict are distinct, so the order of the loop is immaterial
learn_from_dict(kb, items) ==
    LET q   == {k \in DOMAIN items : items[k].str /\ StrLen(items[k].val) > 5}
        old == IF Has(kb, "structured_data") THEN kb["structured_data"] ELSE EmptyDict
    IN  IF q = {}
          THEN kb
          ELSE Put(kb, "structured_data",
                   [k \in (DOMAIN old) \cup q |->
                       IF k \in q THEN items[k].val ELSE old[k]])

RECURSIVE LearnFromList(_, _)
LearnFromList(kb, elems) ==
    IF elems = << >>
      THEN kb
      ELSE LearnFromList(IF Head(elems).isdict
                           THEN learn_from_dict(kb, Head(elems).items)
                           ELSE kb,
                         Tail(elems))

(***************************************************************************)
(* The handlers.  Each returns ok = FALSE when its try block raised (the   *)
(* open, the decoding or the parse failed); the learn_* calls follow the   *)
(* read and cannot fail, so a failed handler has changed nothing.          *)
(***************************************************************************)
process_text_file(fl, p, kb, lp) ==
    IF CanRead(fl, p) /\ Utf8Valid(fl[p].content)
      THEN [ok |-> TRUE,
            kb |-> learn_topics(learn_vocabulary(kb, fl[p].content), fl[p].content),
            lp |-> learn_conversation_patterns(lp, fl[p].content)]
      ELSE [ok |-> FALSE, kb |-> kb, lp |-> lp]

process_json_file(fl, p, kb, lp) ==
    IF CanRead(fl, p) /\ Utf8Valid(fl[p].content)
         /\ JsonLoad(fl[p].content).kind # "error"
      THEN LET data == JsonLoad(fl[p].content)
           IN  [ok |-> TRUE,
                kb |-> CASE data.kind = "dict" -> learn_from_dict(kb, data.items)
                         [] data.kind = "list" -> LearnFromList(kb, data.elems)
                         [] OTHER              -> kb,
                lp |-> lp]
      ELSE [ok |-> FALSE, kb |-> kb, lp |-> lp]

\* (variant: the identifiers found are appended to the lists already held)
process_code_file_extend(fl, p, kb, lp) ==
    IF CanRead(fl, p) /\ Utf8Valid(fl[p].content)
      THEN LET cp == IF Has(lp, "code_patterns")
                       THEN lp["code_patterns"]
                       ELSE [k \in {"functions", "classes"} |-> << >>]
           IN  [ok |-> TRUE,
                kb |-> kb,
                lp |-> Put(lp, "code_patterns",
                           Put(Put(cp, "functions",
                                   cp["functions"] \o FindDefs(fl[p].content)),
                               "classes",
                               cp["classes"] \o FindClasses(fl[p].content)))]
      ELSE [ok |-> FALSE, kb |-> kb, lp |-> lp]

process_code_file(fl, p, kb, lp) ==
    IF CanRead(fl, p) /\ Utf8Valid(fl[p].content)
      THEN LET cp == IF Has(lp, "code_patterns") THEN lp["code_patterns"] ELSE EmptyDict
           IN  [ok |-> TRUE,
                kb |-> kb,
                lp |-> Put(lp, "code_patterns",
                           Put(Put(cp, "functions", FindDefs(fl[p].content)),
                               "classes", FindClasses(fl[p].content)))]
      ELSE [ok |-> FALSE, kb |-> kb, lp |-> lp]

\* processors.get(file_ext, self.process_text_file)
Processor(ext) ==
    CASE ext \in {<<".", "t", "x", "t">>, <<".", "m", "d">>,
                  <<".", "c", "s", "v">>}  -> "text"
      [] ext = <<".", "j", "s", "o", "n">> -> "json"
      [] ext = <<".", "p", "y">>           -> "code"
      [] OTHER                             -> "text"

(***************************************************************************)
(* process_file.  The except clause of a handler prints file_path; with a  *)
(* strict UTF-8 stdout that print raises UnicodeEncodeError for a name     *)
(* that is not valid UTF-8, and the exception leaves process_file.         *)
(***************************************************************************)
process_file(fl, p, kb, lp, strict) ==
    LET h == Processor(Lower(SplitExt(p)))
        r == CASE h = "text" -> process_text_file(fl, p, kb, lp)
               [] h = "json" -> process_json_file(fl, p, kb, lp)
               [] h = "code" -> process_code_file(fl, p, kb, lp)
    IN  [handler |-> h,
         raised |-> ~r.ok /\ strict /\ ~Encodable(p),
         failed |-> ~r.ok,
         kb     |-> r.kb,
         lp     |-> r.lp]


(***************************************************************************)
(* State.                                                                  *)
(***************************************************************************)
VARIABLES
    rootExists,        \* os.path.exists(self.training_folder)
    files,             \* the files of the watched directory
    nChanges,          \* changes made to the watched tree so far
    touched,           \* history: the tree changed since the latest call of
                       \* scan_training_data started
    stdout_strict,     \* sys.stdout.errors = 'strict' (fixed by the locale)
    pc,                \* where each thread is
    is_scanning,
    processed_files,
    knowledge_base,
    learned_patterns,
    frame,             \* the running call of scan_training_data of each thread
    cycles,            \* cycles the background loop has started
    out,               \* what the foreground printed last
    call,              \* history: the call of process_file just made, if any
    attempted,         \* history: the calls of process_file made so far
    hist               \* history: the latest finished calls of
                       \* scan_training_data

vars == <<rootExists, files, nChanges, touched, stdout_strict, pc, is_scanning,
          processed_files, knowledge_base, learned_patterns, frame, cycles,
          out, call, attempted, hist>>

treeVars == <<rootExists, files, nChanges>>
fsVars   == <<treeVars, touched>>
dataVars == <<processed_files, knowledge_base, learned_patterns>>

Threads == {"fg", "bg"}
NoFrame == [active |-> FALSE]
NoCall  == [made |-> FALSE]

\* the position of a thread inside scan_training_data, and after its return
ScanPc(t)  == IF t = "fg" THEN "ctor_scan" ELSE "scan"
AfterPc(t) == IF t = "fg" THEN "ctor_start" ELSE "check"

\* the process is running
Alive == pc["fg"] \notin {"exited", "crashed"}

\* for root, dirs, files in os.walk(...): the entries present at the listing
Listing == SelectSeq(WalkOrder, LAMBDA p : p \in DOMAIN files /\ files[p].exists)

Init ==
    /\ rootExists \in BOOLEAN
    /\ files \in (IF rootExists THEN SmallTrees ELSE {EmptyTree})
    /\ nChanges = 0
    /\ touched = FALSE
    /\ stdout_strict \in BOOLEAN
    /\ pc = [fg |-> "ctor", bg |-> "none"]
    /\ is_scanning = FALSE
    /\ processed_files = {}
    /\ knowledge_base = EmptyDict
    /\ learned_patterns = EmptyDict
    /\ frame = [t \in Threads |-> NoFrame]
    /\ cycles = 0
    /\ out = [kind |-> "none"]
    /\ call = NoCall
    /\ attempted = {}
    /\ hist = << >>

(***************************************************************************)
(* The environment changes the watched tree.  A change is seen only by the *)
(* next step that reads the tree (the existence test, the listing, the     *)
(* open of a file), so the tree changes only while some thread is about to *)
(* take such a step.                                                       *)
(***************************************************************************)
Watching ==
    \/ pc["fg"] \in {"ctor", "ctor_scan"}
    \/ pc["bg"] \in {"sleep", "scan"}

\* the root appears, empty (mkdir) or with a file in it (a prepared directory
\* renamed into place)
EnvMkdir(tree) ==
    /\ Alive /\ Watching /\ nChanges < MaxFsChanges
    /\ ~rootExists
    /\ rootExists' = TRUE
    /\ files' = tree
    /\ nChanges' = nChanges + 1
    /\ touched' = TRUE
    /\ UNCHANGED <<stdout_strict, pc, is_scanning, dataVars, frame,
                   cycles, out, call, attempted, hist>>

EnvRmtree ==
    /\ Alive /\ Watching /\ nChanges < MaxFsChanges
    /\ rootExists
    /\ rootExists' = FALSE
    /\ files' = EmptyTree
    /\ nChanges' = nChanges + 1
    /\ touched' = TRUE
    /\ UNCHANGED <<stdout_strict, pc, is_scanning, dataVars, frame,
                   cycles, out, call, attempted, hist>>

\* create, overwrite or chmod: the file at p now has bytes c, readable or not
EnvWrite(p, c, r) ==
    /\ Alive /\ Watching /\ nChanges < MaxFsChanges
    /\ rootExists
    /\ files[p] # FileOf(c, r)
    /\ files' = [files EXCEPT ![p] = FileOf(c, r)]
    /\ nChanges' = nChanges + 1
    /\ touched' = TRUE
    /\ UNCHANGED <<rootExists, stdout_strict, pc, is_scanning, dataVars, frame,
                   cycles, out, call, attempted, hist>>

EnvUnlink(p) ==
    /\ Alive /\ Watching /\ nChanges < MaxFsChanges
    /\ files[p].exists
    /\ files' = [files EXCEPT ![p] = NoFile]
    /\ nChanges' = nChanges + 1
    /\ touched' = TRUE
    /\ UNCHANGED <<rootExists, stdout_strict, pc, is_scanning, dataVars, frame,
                   cycles, out, call, attempted, hist>>

(***************************************************************************)
(* scan_training_data, called by thread t.                                 *)
(***************************************************************************)
\* the record of a finished call
ScanRecord(t, outcome, ret, f, quiet) ==
    [brief |-> FALSE,
     by |-> t, outcome |-> outcome, ret |-> ret,
     cycle   |-> IF t = "fg" THEN 0 ELSE cycles,   \* 0 is the initial scan
     missing |-> f.missing,          \* "Training data folder not found" printed
     flag    |-> is_scanning,        \* is_scanning when the call finished
     nfiles  |-> Len(f.list),        \* files the walk listed
     ndisp   |-> f.ndisp,            \* calls of process_file
     added   |-> Cardinality(processed_files) - Cardinality(f.pf0),
                                     \* fingerprints the call added
     quiet   |-> quiet,              \* no change of the tree during the call
     still   |-> quiet /\ ~f.touched0, \* nor since the call before it started
     same    |-> /\ processed_files  = f.pf0
                 /\ knowledge_base   = f.kb0
                 /\ learned_patterns = f.lp0,
     summary |-> ret > 0]            \* the knowledge summary printed

\* the locals of a call that starts now and lists the files in list
NewFrame(list, missing) ==
    [active |-> TRUE, list |-> list, i |-> 1, count |-> 0, ndisp |-> 0,
     missing |-> missing, touched0 |-> touched, pf0 |-> processed_files,
     kb0 |-> knowledge_base, lp0 |-> learned_patterns]

\* the history keeps the record of the call that has just finished and, in
\* brief, that of the call before it; from the next loop test on only the
\* brief of the latest is kept
Brief(rec) ==
    [brief |-> TRUE, by |-> rec.by, cycle |-> rec.cycle,
     outcome |-> rec.outcome, missing |-> rec.missing]
Recall(h)   == IF h = << >> THEN << >> ELSE << Brief(h[Len(h)]) >>
Log(h, rec) == Recall(h) \o << rec >>

\* (variant: the loop of _continuous_scan without its try/except)
RaiseUncaught(t, f) ==
    /\ pc' = [pc EXCEPT ![t] = IF t = "fg" THEN "crashed" ELSE "done"]
    /\ frame' = [frame EXCEPT ![t] = NoFrame]
    /\ hist' = Log(hist, ScanRecord(t, "raised", 0, f, ~touched))

\* an exception leaves scan_training_data: the constructor propagates it and
\* the program ends with a traceback; _continuous_scan catches it, prints it
\* and goes back to the loop test (lines 50-51)
Raise(t, f) ==
    /\ pc' = [pc EXCEPT ![t] = IF t = "fg" THEN "crashed" ELSE "check"]
    /\ frame' = [frame EXCEPT ![t] = NoFrame]
    /\ hist' = Log(hist, ScanRecord(t, "raised", 0, f, ~touched))

\* (variant: the root is listed without the os.path.exists test, and listing
\* a missing directory raises)
CallScanListdir(t) ==
    IF ~rootExists
      THEN /\ Raise(t, NewFrame(<< >>, TRUE))
           /\ UNCHANGED dataVars
      ELSE /\ pc' = [pc EXCEPT ![t] = ScanPc(t)]
           /\ frame' = [frame EXCEPT ![t] = NewFrame(Listing, FALSE)]
           /\ hist' = Recall(hist)
           /\ UNCHANGED dataVars

\* lines 55-59: a missing root is reported and 0 returned; else the walk starts
CallScan(t) ==
    IF ~rootExists
      THEN /\ pc' = [pc EXCEPT ![t] = AfterPc(t)]
           /\ hist' = Log(hist, ScanRecord(t, "returned", 0, NewFrame(<< >>, TRUE), TRUE))
           /\ UNCHANGED <<frame, dataVars>>
      ELSE /\ pc' = [pc EXCEPT ![t] = ScanPc(t)]
           /\ frame' = [frame EXCEPT ![t] = NewFrame(Listing, FALSE)]
           /\ hist' = Recall(hist)
           /\ UNCHANGED dataVars

\* (variant: the membership test of line 66 is dropped)
IsNewAlways(pf, fp) == TRUE

\* line 66: file_hash not in self.processed_files
IsNew(pf, fp) == fp \notin pf

\* (variant: the set is assigned instead of added to)
AddSeenAssign(pf, fp) == {fp}

\* line 68: self.processed_files.add(file_hash)
AddSeen(pf, fp) == pf \cup {fp}

\* lines 62-69: one iteration of the loop over the listed files
ScanFile(t) ==
    /\ Alive
    /\ pc[t] = ScanPc(t)
    /\ frame[t].active
    /\ frame[t].i <= Len(frame[t].list)
    /\ LET f == frame[t]
           p == f.list[f.i]
           h == hash_file(files, p)
           r == process_file(files, p, knowledge_base, learned_patterns, stdout_strict)
           c == [made |-> TRUE, path |-> p, fp |-> h.fp,
                 bytes |-> IF files[p].exists THEN files[p].content ELSE "",
                 readable |-> CanRead(files, p), handler |-> r.handler,
                 failed |-> r.failed, raised |-> r.raised]
       IN  IF h.raised
             THEN /\ Raise(t, f)
                  /\ call' = NoCall
                  /\ UNCHANGED <<dataVars, attempted>>
             ELSE IF ~IsNew(processed_files, h.fp)
                    THEN /\ frame' = [frame EXCEPT ![t].i = f.i + 1]
                         /\ call' = NoCall
                         /\ UNCHANGED <<pc, dataVars, attempted, hist>>
                    ELSE /\ call' = c
                         /\ attempted' = attempted \cup {c}
                         /\ IF r.raised
                              THEN /\ UNCHANGED dataVars
                                   /\ Raise(t, [f EXCEPT !.ndisp = f.ndisp + 1])
                              ELSE /\ knowledge_base' = r.kb
                                   /\ learned_patterns' = r.lp
                                   /\ processed_files' = AddSeen(processed_files, h.fp)
                                   /\ frame' = [frame EXCEPT ![t].i = f.i + 1,
                                                             ![t].count = f.count + 1,
                                                             ![t].ndisp = f.ndisp + 1]
                                   /\ UNCHANGED <<pc, hist>>
    /\ UNCHANGED <<fsVars, stdout_strict, is_scanning, cycles, out>>

\* lines 71-75: the summary is printed when files were new; the count returned
ScanReturn(t) ==
    /\ Alive
    /\ pc[t] = ScanPc(t)
    /\ frame[t].active
    /\ frame[t].i > Len(frame[t].list)
    /\ pc' = [pc EXCEPT ![t] = AfterPc(t)]
    /\ hist' = Log(hist, ScanRecord(t, "returned", frame[t].count, frame[t], ~touched))
    /\ frame' = [frame EXCEPT ![t] = NoFrame]
    /\ call' = NoCall
    /\ UNCHANGED <<fsVars, stdout_strict, is_scanning, dataVars, cycles, out, attempted>>

(***************************************************************************)
(* The foreground thread: AutoScanAI() and then interactive_mode().        *)
(***************************************************************************)
\* (variant: the scan thread is started before the initial scan)
ConstructStartFirst ==
    /\ pc["fg"] = "ctor"
    /\ is_scanning' = TRUE
    /\ IF ~rootExists
         THEN /\ pc' = [fg |-> "ctor_start", bg |-> "check"]
              /\ hist' = Log(hist, ScanRecord("fg", "returned", 0, NewFrame(<< >>, TRUE), TRUE))
              /\ UNCHANGED <<frame, dataVars>>
         ELSE /\ pc' = [fg |-> "ctor_scan", bg |-> "check"]
              /\ frame' = [frame EXCEPT !["fg"] = NewFrame(Listing, FALSE)]
              /\ hist' = Recall(hist)
              /\ UNCHANGED dataVars
    /\ touched' = FALSE
    /\ UNCHANGED <<treeVars, stdout_strict, cycles, out, call, attempted>>

\* __init__, lines 16-29: the fields are set and the initial scan is called
Construct ==
    /\ pc["fg"] = "ctor"
    /\ CallScan("fg")
    /\ touched' = FALSE
    /\ UNCHANGED <<treeVars, stdout_strict, is_scanning, cycles, out,
                   call, attempted>>

\* __init__ line 32 and start_continuous_scanning; interactive_mode follows
StartContinuousScanning ==
    /\ pc["fg"] = "ctor_start"
    /\ is_scanning' = TRUE
    /\ pc' = [fg |-> "interactive", bg |-> "check"]
    /\ UNCHANGED <<fsVars, stdout_strict, dataVars, frame, cycles, out, call, attempted, hist>>

\* analyze_learned_knowledge: what 'status' prints
StatusReport ==
    [kind     |-> "status",
     vocab    |-> IF Has(knowledge_base, "vocabulary")
                    THEN Cardinality(knowledge_base["vocabulary"]) ELSE -1,
     patterns |-> IF Has(learned_patterns, "conversation_patterns")
                    THEN Len(learned_patterns["conversation_patterns"]) ELSE -1,
     total    |-> Cardinality(processed_files)]

\* generate_response: the reply names learned words when there are any
generate_response(user_input) ==
    [kind     |-> "response",
     enhanced |-> /\ Has(knowledge_base, "vocabulary")
                  /\ knowledge_base["vocabulary"] # {},
     branch   |-> user_input]

UserInputs == {"hello"}

\* interactive_mode, lines 260-262
Status ==
    /\ pc["fg"] = "interactive"
    /\ out' = StatusReport
    /\ UNCHANGED <<fsVars, stdout_strict, pc, is_scanning, dataVars, frame,
                   cycles, call, attempted, hist>>

\* (variant: the reply also learns the words of the input)
RespondLearning(user_input) ==
    /\ pc["fg"] = "interactive"
    /\ out' = generate_response(user_input)
    /\ knowledge_base' = learn_vocabulary(knowledge_base, user_input)
    /\ UNCHANGED <<fsVars, stdout_strict, pc, is_scanning, processed_files,
                   learned_patterns, frame, cycles, call, attempted, hist>>

\* interactive_mode, lines 264-265
Respond(user_input) ==
    /\ pc["fg"] = "interactive"
    /\ out' = generate_response(user_input)
    /\ UNCHANGED <<fsVars, stdout_strict, pc, is_scanning, dataVars, frame,
                   cycles, call, attempted, hist>>

\* interactive_mode, lines 255-258 ('quit', 'exit') and 267-270 (Ctrl-C)
Quit ==
    /\ pc["fg"] = "interactive"
    /\ is_scanning' = FALSE
    /\ pc' = [pc EXCEPT !["fg"] = "returned"]
    /\ out' = [kind |-> "stopped"]
    /\ UNCHANGED <<fsVars, stdout_strict, dataVars, frame, cycles,
                   call, attempted, hist>>

\* lines 273-275: interactive_mode has returned and the main thread ends; the
\* scan thread is a daemon (line 38), so the interpreter exits without
\* waiting for it and the thread dies wherever it is
ProcessExit ==
    /\ pc["fg"] = "returned"
    /\ pc' = [fg |-> "exited",
              bg |-> IF pc["bg"] = "done" THEN "done" ELSE "killed"]
    /\ frame' = [t \in Threads |-> NoFrame]
    /\ call' = NoCall
    /\ UNCHANGED <<fsVars, stdout_strict, is_scanning, dataVars, cycles, out,
                   attempted, hist>>

(***************************************************************************)
(* The background thread: _continuous_scan.                                *)
(***************************************************************************)
\* (variant: the loop does not test is_scanning)
BgCheckNoFlag ==
    /\ Alive
    /\ pc["bg"] = "check"
    /\ cycles < MaxCycles
    /\ pc' = [pc EXCEPT !["bg"] = "sleep"]
    /\ cycles' = cycles + 1
    /\ hist' = Recall(hist)
    /\ call' = NoCall
    /\ UNCHANGED <<fsVars, stdout_strict, is_scanning, dataVars, frame,
                   out, attempted>>

\* line 44: the loop test; a true test enters time.sleep (line 46)
BgCheck ==
    /\ Alive
    /\ pc["bg"] = "check"
    /\ is_scanning => cycles < MaxCycles
    /\ IF is_scanning
         THEN /\ pc' = [pc EXCEPT !["bg"] = "sleep"]
              /\ cycles' = cycles + 1
              /\ hist' = Recall(hist)
              /\ call' = NoCall
         ELSE /\ pc' = [pc EXCEPT !["bg"] = "done"]
              /\ UNCHANGED <<cycles, hist, call>>
    /\ UNCHANGED <<fsVars, stdout_strict, is_scanning, dataVars, frame,
                   out, attempted>>

\* lines 46-47: the sleep ends and scan_training_data is called
BgWake ==
    /\ Alive
    /\ pc["bg"] = "sleep"
    /\ CallScan("bg")
    /\ call' = NoCall
    /\ touched' = FALSE
    /\ UNCHANGED <<treeVars, stdout_strict, is_scanning, cycles, out,
                   attempted>>

Next ==
    \/ \E tree \in SmallTrees : EnvMkdir(tree)
    \/ EnvRmtree
    \/ \E p \in Paths, c \in Contents, r \in BOOLEAN : EnvWrite(p, c, r)
    \/ \E p \in Paths : EnvUnlink(p)
    \/ Construct
    \/ StartContinuousScanning
    \/ Status
    \/ \E u \in UserInputs : Respond(u)
    \/ Quit
    \/ ProcessExit
    \/ BgCheck
    \/ BgWake
    \/ \E t \in Threads : ScanFile(t)
    \/ \E t \in Threads : ScanReturn(t)

Spec == Init /\ [][Next]_vars

(***************************************************************************)
(* The initial scan alone, on a tree of up to MaxFiles readable files with *)
(* any of the names and contents above: the constructor walks it before    *)
(* any thread is started and before the environment changes anything.      *)
(***************************************************************************)
TreeOf(g) ==
    [p \in AllNames |-> IF p \in DOMAIN g THEN FileOf(g[p], TRUE) ELSE NoFile]

NameSets == {T \in SUBSET AllNames : Cardinality(T) <= MaxFiles}

InitialScanInit ==
    /\ rootExists = TRUE
    /\ \E S \in NameSets : \E g \in [S -> AllContents] : files = TreeOf(g)
    /\ nChanges = 0
    /\ touched = FALSE
    /\ stdout_strict \in BOOLEAN
    /\ pc = [fg |-> "ctor", bg |-> "none"]
    /\ is_scanning = FALSE
    /\ processed_files = {}
    /\ knowledge_base = EmptyDict
    /\ learned_patterns = EmptyDict
    /\ frame = [t \in Threads |-> NoFrame]
    /\ cycles = 0
    /\ out = [kind |-> "none"]
    /\ call = NoCall
    /\ attempted = {}
    /\ hist = << >>

InitialScanNext ==
    \/ Construct
    \/ ScanFile("fg")
    \/ ScanReturn("fg")

InitialScanSpec == InitialScanInit /\ [][InitialScanNext]_vars

(***************************************************************************)
(* Properties.                                                             *)
(***************************************************************************)
LastScan == hist[Len(hist)]

\* thread t calls scan_training_data in this step
CallStep(t) ==
    /\ pc[t] = (IF t = "fg" THEN "ctor" ELSE "sleep")
    /\ pc'[t] \notin {pc[t], "killed"}

\* a call of scan_training_data finishes in this step
FinishStep ==
    /\ hist' # << >>
    /\ ~hist'[Len(hist')].brief
    /\ hist # << >> => hist'[Len(hist')].cycle # LastScan.cycle

\* a scan calls process_file in this step
DispatchStep == frame' # frame /\ call'.made

\* C1: of the readable files with the same bytes, process_file is called for
\* only one, the first met: no call of process_file is for a readable file
\* whose bytes an earlier call, of the same or of an earlier scan, was
\* already given in a readable file.
C1_OnlyFirstDispatched ==
    [][(DispatchStep /\ call'.readable)
          => \A a \in attempted : a.readable => a.bytes # call'.bytes]_vars

\* C2: when the watched tree has not changed from the start of one call of
\* scan_training_data to the end of the next, that next call returns 0,
\* dispatches no file and leaves processed_files, knowledge_base and
\* learned_patterns as they were.
C2_UnchangedRescan ==
    (Len(hist) = 2 /\ hist[2].still)
        => /\ hist[2].outcome = "returned"
           /\ hist[2].ret = 0
           /\ hist[2].ndisp = 0
           /\ hist[2].same

\* C3: a call of scan_training_data that finds the watched root missing
\* returns 0 in that very step, without raising, without dispatching and
\* without changing processed_files, knowledge_base or learned_patterns.
C3_MissingRoot ==
    [][\A t \in Threads :
          (CallStep(t) /\ ~rootExists)
              => /\ pc'[t] = AfterPc(t)
                 /\ UNCHANGED dataVars
                 /\ ~call'.made
                 /\ attempted' = attempted
                 /\ frame' = frame
                 /\ FinishStep
                 /\ hist'[Len(hist')].outcome = "returned"
                 /\ hist'[Len(hist')].ret = 0
                 /\ hist'[Len(hist')].missing]_vars

\* a background scan found the root missing after files had been learned
C3_Witness ==
    /\ hist # << >>
    /\ ~LastScan.brief
    /\ LastScan.by = "bg"
    /\ LastScan.missing
    /\ LastScan.ret = 0
    /\ LastScan.same
    /\ processed_files # {}

\* C4: an exception raised in a cycle of _continuous_scan is caught and the
\* thread is back at its loop test with is_scanning untouched; the loop ends
\* only when is_scanning is false, never because of a failure.
C4_CycleErrorsCaught ==
    /\ [](pc["bg"] = "done" => ~is_scanning)
    /\ [][(FinishStep /\ hist'[Len(hist')].by = "bg"
                      /\ hist'[Len(hist')].outcome = "raised")
             => /\ pc'["bg"] = "check"
                /\ is_scanning' = is_scanning]_vars

\* a background cycle raised and the next background cycle ran its scan
C4_Witness ==
    /\ Len(hist) = 2
    /\ hist[1].by = "bg" /\ hist[1].outcome = "raised"
    /\ hist[2].by = "bg" /\ hist[2].cycle = hist[1].cycle + 1
    /\ is_scanning

\* C5: a handler that fails on a file does not let the failure out of
\* process_file, leaves knowledge_base and learned_patterns unchanged, and
\* the file's fingerprint is added to processed_files (it counts as new).
C5_HandlerFailureContained ==
    [][\A t \in Threads :
          (DispatchStep /\ frame'[t] # frame[t] /\ call'.failed)
              => /\ ~call'.raised
                 /\ UNCHANGED <<knowledge_base, learned_patterns>>
                 /\ call'.fp \in processed_files'
                 /\ frame'[t].active
                 /\ frame'[t].count = frame[t].count + 1]_vars

C7_SeenSetMonotone ==
    [][processed_files \subseteq processed_files']_vars

\* both the initial scan and a background cycle added fingerprints, and the
\* foreground printed a status afterwards
C7_Witness ==
    /\ out.kind = "status"
    /\ Len(hist) = 2
    /\ hist[1].by = "fg"
    /\ hist[2].by = "bg" /\ hist[2].ret > 0
    /\ out.total = Cardinality(processed_files)
    /\ out.total > hist[2].ret

\* C8: the constructor runs exactly one scan, in the foreground, and only
\* when it has returned is is_scanning set and the scan thread started; no
\* background scan overlaps it, and a background scan starts only out of a
\* sleep that was entered at the loop test.
C8_InitialScanFirst ==
    /\ [](/\ pc["fg"] \in {"ctor", "ctor_scan"}
               => (pc["bg"] = "none" /\ ~is_scanning)
          /\ ~(frame["fg"].active /\ frame["bg"].active)
          /\ pc["fg"] = "ctor" => hist = << >>
          /\ pc["bg"] # "none" => hist # << >>)
    /\ [][/\ (FinishStep /\ hist'[Len(hist')].by = "fg")
               => (hist = << >> /\ pc["bg"] = "none")
          /\ (pc["bg"] = "none" /\ pc'["bg"] # "none")
               => /\ hist' = hist
                  /\ hist = << hist[1] >>
                  /\ hist[1].by = "fg"
                  /\ hist[1].outcome = "returned"
          /\ ((frame'["bg"].active /\ ~frame["bg"].active)
                 \/ (FinishStep /\ hist'[Len(hist')].by = "bg"
                                /\ ~frame["bg"].active))
               => pc["bg"] = "sleep"
          /\ (pc'["bg"] = "sleep" /\ pc["bg"] # "sleep")
               => (pc["bg"] = "check" /\ is_scanning)]_vars

\* a background scan is walking files after the initial scan returned
C8_Witness ==
    /\ frame["bg"].active
    /\ frame["bg"].list # << >>
    /\ hist = << hist[1] >>
    /\ hist[1].by = "fg"
    /\ processed_files # {}

\* C9 as stated: once is_scanning is false, the cycle in flight (its sleep
\* and the scan after it) is not interrupted: it runs on to the loop test.
C9_InFlightCompletes ==
    [][(~is_scanning /\ pc["bg"] \in {"sleep", "scan"})
          => pc'["bg"] \in {"sleep", "scan", "check"}]_vars

\* C9 amended: clearing is_scanning touches nothing of the scan thread; the
\* cycle in flight runs on while the process lives and is cut short only by
\* the end of the process; the loop test after it starts no further cycle
\* and ends the thread, which stays ended.
C9_StopOnlyPreventsFuture ==
    [][/\ (is_scanning /\ ~is_scanning')
            => (pc'["bg"] = pc["bg"] /\ frame' = frame /\ UNCHANGED dataVars)
       /\ (~is_scanning /\ pc["bg"] \in {"sleep", "scan"})
            => \/ pc'["bg"] \in {"sleep", "scan", "check"}
               \/ (pc'["bg"] = "killed" /\ pc'["fg"] = "exited")
       /\ (~is_scanning /\ pc["bg"] \in {"check", "done"})
            => (pc'["bg"] \in {"check", "done", "killed"} /\ cycles' = cycles)
       /\ pc["bg"] = "done" => pc'["bg"] = "done"]_vars

\* a scan that was in flight at the stop returned new files afterwards, and
\* the thread has ended at its loop test
C9_Witness ==
    /\ pc["bg"] = "done"
    /\ hist # << >>
    /\ ~LastScan.brief
    /\ LastScan.by = "bg" /\ ~LastScan.flag
    /\ LastScan.outcome = "returned" /\ LastScan.ret > 0

\* C10: a scan that finds the root missing returns 0, and the first
\* background scan that finds it again (the tree not changing while it
\* runs) returns the number of files it dispatched and leaves every file
\* of the tree marked in processed_files: the files not seen before were
\* dispatched and counted.
C10_MissingRootRetried ==
    /\ \A k \in DOMAIN hist :
          (hist[k].missing /\ ~hist[k].brief)
              => (hist[k].outcome = "returned" /\ hist[k].ret = 0)
    /\ (/\ Len(hist) = 2
        /\ hist[1].missing /\ ~hist[2].missing /\ hist[2].by = "bg"
        /\ hist[2].flag /\ hist[2].quiet /\ ~touched)
          => /\ hist[2].outcome = "returned"
             /\ hist[2].ret = hist[2].ndisp
             /\ \A p \in Paths :
                   files[p].exists
                       => hash_file(files, p).fp \in processed_files

\* C11 as stated: knowledge_base, processed_files and learned_patterns are
\* written only by steps of the background scan.
C11_OnlyBackgroundWrites ==
    [][dataVars' # dataVars
          => (pc["bg"] = "scan" /\ frame'["bg"] # frame["bg"])]_vars

\* C11 amended: the three structures are written only by the loop of
\* scan_training_data; the foreground thread runs it once, in the
\* constructor, before the scan thread exists, and from then on the
\* foreground (starting the thread, status, reply, quit, exit) leaves them
\* as they are.
C11_OnlyScansWrite ==
    [][/\ dataVars' # dataVars
            => \E t \in Threads :
                  /\ pc[t] = ScanPc(t)
                  /\ frame[t].active
                  /\ frame'[t] # frame[t]
                  /\ t = "fg" => pc["bg"] = "none"
       /\ (/\ pc["fg"] \in {"ctor_start", "interactive", "returned"}
           /\ (pc'["fg"] # pc["fg"] \/ out' # out))
            => UNCHANGED dataVars]_vars

\* the initial scan wrote, the first background scan is writing, and the
\* foreground has replied with words it read from knowledge_base
C11_Witness ==
    /\ out.kind = "response" /\ out.enhanced
    /\ pc["bg"] = "scan"
    /\ frame["bg"].active
    /\ frame["bg"].pf0 # {}
    /\ frame["bg"].count > 0
    /\ hist = << hist[1] >>
    /\ hist[1].by = "fg"

\* the scan has the code handler process a file in this step
CodeStep == DispatchStep /\ call'.handler = "code" /\ ~call'.failed

\* the entries of learned_patterns other than code_patterns
OtherPatterns(lp) == [k \in DOMAIN lp \ {"code_patterns"} |-> lp[k]]

\* C12: when the code handler has processed a file, the functions and
\* classes of code_patterns are exactly the identifiers of that file,
\* whatever the lists held before, and knowledge_base (vocabulary, topics,
\* structured_data) and conversation_patterns are as before; no other step
\* changes code_patterns.
C12_CodePatternsOverwrite ==
    [][/\ CodeStep
            => /\ Has(learned_patterns', "code_patterns")
               /\ learned_patterns'["code_patterns"]["functions"]
                      = FindDefs(call'.bytes)
               /\ learned_patterns'["code_patterns"]["classes"]
                      = FindClasses(call'.bytes)
               /\ knowledge_base' = knowledge_base
               /\ OtherPatterns(learned_patterns')
                      = OtherPatterns(learned_patterns)
       /\ ~CodeStep
            => /\ Has(learned_patterns', "code_patterns")
                      = Has(learned_patterns, "code_patterns")
               /\ Has(learned_patterns, "code_patterns")
                      => learned_patterns'["code_patterns"]
                            = learned_patterns["code_patterns"]]_vars

\* a code file defining foo was processed, then one defining bar, and the
\* functions are bar alone
C12_Witness ==
    /\ Has(learned_patterns, "code_patterns")
    /\ learned_patterns["code_patterns"]["functions"] = <<"bar">>
    /\ learned_patterns["code_patterns"]["classes"] = <<"Chart">>
    /\ \E a, b \in attempted :
          /\ a.handler = "code" /\ a.bytes = BytesFoo
          /\ b.handler = "code" /\ b.bytes = BytesBar
    /\ pc["fg"] = "ctor_start"

\* the entry of a dict under key k, or nothing
Entry(d, k) == IF Has(d, k) THEN <<d[k]>> ELSE << >>

\* C13: every call of process_file runs the one handler that the file's
\* extension, lowercased, selects: text for .txt, .md, .csv, for any other
\* extension and for none; structured for .json and .JSON; code for .py and
\* .Py.  A handler that succeeds writes only what is its own: the text
\* handler no code_patterns or structured_data, the structured handler
\* nothing of learned_patterns and no vocabulary, the code handler nothing
\* of knowledge_base.
C13_RoutedByExtension ==
    /\ [](\A a \in attempted :
            a.handler =
              CASE a.path \in {NameTxt, NameMd, NameCsv}    -> "text"
                [] a.path \in {NameBad, NameUpJson}         -> "json"
                [] a.path \in {NamePy, NameMixPy}           -> "code"
                [] a.path \in {NameDat, NameNoExt, NameDot} -> "text")
    /\ [][(DispatchStep /\ ~call'.failed)
             => /\ call'.handler = "text"
                     => /\ Has(knowledge_base', "vocabulary")
                        /\ Entry(learned_patterns', "code_patterns")
                              = Entry(learned_patterns, "code_patterns")
                        /\ Entry(knowledge_base', "structured_data")
                              = Entry(knowledge_base, "structured_data")
                /\ call'.handler = "json"
                     => /\ learned_patterns' = learned_patterns
                        /\ Entry(knowledge_base', "vocabulary")
                              = Entry(knowledge_base, "vocabulary")
                /\ call'.handler = "code"
                     => /\ knowledge_base' = knowledge_base
                        /\ Has(learned_patterns', "code_patterns")]_vars

\* a file named A.JSON went to the structured handler, which learned from
\* it, and a file named c.Py to the code handler
C13_Witness ==
    /\ \E a, b \in attempted :
          /\ a.path = NameUpJson /\ a.handler = "json" /\ ~a.failed
          /\ b.path = NameMixPy /\ b.handler = "code" /\ ~b.failed
    /\ Has(knowledge_base, "structured_data")
    /\ Has(learned_patterns, "code_patterns")

\* structured_data as a mapping, empty when the key is absent
StructuredData(kb) ==
    IF Has(kb, "structured_data") THEN kb["structured_data"] ELSE EmptyDict

\* C14: the structured handler writes a key iff its value is a string longer
\* than 5: {"a": "short"} writes nothing; {"a": "this is long enough"}
\* writes a; of "a" (18 characters), "n" (a number) and "s" (6 characters)
\* a and s are written; of a top-level list the mappings are taken in
\* order, a 4-character value skipped and a later value for b written.  A
\* written key replaces the entry it had, every other entry stays, and no
\* step but one of the structured handler changes structured_data.
C14_StructuredData ==
    [][LET old == StructuredData(knowledge_base)
           new == StructuredData(knowledge_base')
       IN  IF DispatchStep /\ call'.handler = "json" /\ ~call'.failed
             THEN CASE call'.bytes = BytesShort -> new = old
                    [] call'.bytes = BytesLong ->
                         new = ("a" :> "this is long enough") @@ old
                    [] call'.bytes = BytesOther ->
                         new = ("a" :> "another long value")
                                  @@ ("s" :> "sixsix") @@ old
                    [] call'.bytes = BytesList ->
                         new = ("a" :> "listed long value")
                                  @@ ("b" :> "second long value") @@ old
                    [] OTHER -> FALSE
             ELSE new = old]_vars

\* a was written from one file and replaced from a later one, which also
\* wrote s and did not write n
C14_Witness ==
    /\ \E x, y \in attempted :
          /\ x.handler = "json" /\ ~x.failed /\ x.bytes = BytesLong
          /\ y.handler = "json" /\ ~y.failed /\ y.bytes = BytesOther
    /\ DOMAIN StructuredData(knowledge_base) = {"a", "s"}
    /\ StructuredData(knowledge_base)["a"] = "another long value"

\* C15: every call of scan_training_data added as many fingerprints to
\* processed_files as it made calls of process_file; a call that returned
\* returned that number and printed the summary iff it is positive; and a
\* call that did not return a number added nothing, so that the size of
\* processed_files is the sum of the numbers returned.
C15_CountsAgree ==
    \A k \in DOMAIN hist :
        ~hist[k].brief
            => /\ hist[k].added = hist[k].ndisp
               /\ hist[k].outcome = "returned"
                    => /\ hist[k].ret = hist[k].added
                       /\ hist[k].summary = (hist[k].ret > 0)
               /\ hist[k].outcome = "raised" => hist[k].added = 0

=============================================================================
